---- MODULE Spec2Model ----
(***************************************************************************)
(* Model of ligpy/analysis_tools.py: the result loader (load_results,      *)
(* read_results_files) and the aggregation functions (tar_elem_analysis,   *)
(* C_fun_gen, lump_species).                                                *)
(*                                                                         *)
(* Text is a sequence of one-character strings.  A segment file is a       *)
(* sequence of lines, a line the sequence of its tab-separated fields, a   *)
(* field the sequence of its space-separated tokens; a numeric token is    *)
(* held as the number float() makes of it.  Python indices are 0-based and *)
(* kept so in dictionaries; a matrix row is a TLA+ sequence, so column j   *)
(* of a row is row[j+1].                                                   *)
(***************************************************************************)
EXTENDS Integers, Sequences, FiniteSets, TLC

VARIABLES
    dirExists,          \* os.path.exists(path + '/results_dir')
    paramsFile,         \* results_dir/prog_params.pkl
    modelFile,          \* path/model.c
    segFiles,           \* results_dir/ddasac_results_{1,2,3}.out
    pc,                 \* position inside load_results
    opened,             \* the files opened so far, in order
    notices,            \* the lines printed so far
    outcome,            \* "none", "ok", or the exception raised
    prog_params,        \* local prog_params
    specieslist,        \* local specieslist_ddasac
    speciesindices,     \* local speciesindices_ddasac
    indices_to_species, \* local indices_to_species_ddasac
    t, y, T,            \* locals t, y, T
    ret,                \* the value load_results returned
    MW,                 \* the species-property table imported from constants
    last                \* the last aggregation call: function, arguments, result

fsVars   == <<dirExists, paramsFile, modelFile, segFiles>>
loadVars == <<pc, opened, notices, outcome, prog_params, specieslist,
              speciesindices, indices_to_species, t, y, T, ret>>
vars     == <<fsVars, loadVars, MW, last>>

(***************************************************************************)
(* Bounds of the model and constants of the program.                       *)
(***************************************************************************)
MaxRows == 2
MaxTime == 1
ReadLimit == 1000
SeekOffset == 6
FooterLines == 7
MaxConc == 1
NumTimes == 2
Unit == 2
WtC == 120110
WtH == 10079
WtO == 159990

Min(a, b) == IF a < b THEN a ELSE b
Range(f) == {f[x] : x \in DOMAIN f}
EmptyDict == [x \in {} |-> 0]

(***************************************************************************)
(* Text of model.c and its parse (load_results, lines 86-114).             *)
(***************************************************************************)
Marker == <<"e", "n", "u", "m", " ", "{">>

\* The species the solver's model enumerates, as identifiers.
Names == {<<"B">>, <<"A", "B">>, <<"A">>}

\* Code points of the characters that occur in identifiers.
Ord(c) == CASE c = "A" -> 65 [] c = "B" -> 66 [] OTHER -> 0

\* Python's str comparison a < b: lexicographic by code point.
RECURSIVE StrLess(_, _)
StrLess(a, b) ==
    IF b = <<>> THEN FALSE
    ELSE IF a = <<>> THEN TRUE
    ELSE IF Ord(Head(a)) # Ord(Head(b)) THEN Ord(Head(a)) < Ord(Head(b))
    ELSE StrLess(Tail(a), Tail(b))

\* body.find(pat): the 0-based index of the first occurrence, -1 when none.
Find(body, pat) ==
    LET hits == {i \in 0..(Len(body) - Len(pat)) :
                    SubSeq(body, i + 1, i + Len(pat)) = pat}
    IN IF hits = {} THEN -1
       ELSE CHOOSE i \in hits : \A j \in hits : i <= j

\* modelc.seek(pos); modelc.read(n)
ReadAt(body, pos, n) == SubSeq(body, pos + 1, Min(Len(body), pos + n))

\* The loop of lines 94-98: the text before the first '}', '' when there is none.
UpToBrace(txt) ==
    LET hits == {i \in 1..Len(txt) : txt[i] = "}"}
    IN IF hits = {} THEN <<>>
       ELSE SubSeq(txt, 1, (CHOOSE i \in hits : \A j \in hits : i <= j) - 1)

\* s.replace(c, '')
RECURSIVE Remove(_, _)
Remove(s, c) ==
    IF s = <<>> THEN <<>>
    ELSE IF Head(s) = c THEN Remove(Tail(s), c)
    ELSE <<Head(s)>> \o Remove(Tail(s), c)

\* s.split(sep) for a one-character separator: ''.split(',') is [''].
RECURSIVE SplitAcc(_, _, _)
SplitAcc(s, sep, cur) ==
    IF s = <<>> THEN <<cur>>
    ELSE IF Head(s) = sep THEN <<cur>> \o SplitAcc(Tail(s), sep, <<>>)
    ELSE SplitAcc(Tail(s), sep, Append(cur, Head(s)))

Split(s, sep) == SplitAcc(s, sep, <<>>)

\* Lines 87-104: the species in the order model.c enumerates them.
ParseSpecies(body) ==
    LET spos      == Find(body, Marker)
        listiwant == ReadAt(body, spos + SeekOffset, ReadLimit)
        found     == UpToBrace(listiwant)
        stripped  == Remove(Remove(found, "\n"), " ")
    IN Split(stripped, ",")

\* list.sort() of line 114, as an insertion sort under Python's str order.
RECURSIVE Insert(_, _)
Insert(x, sorted) ==
    IF sorted = <<>> THEN <<x>>
    ELSE IF StrLess(x, Head(sorted)) THEN <<x>> \o sorted
    ELSE <<Head(sorted)>> \o Insert(x, Tail(sorted))

RECURSIVE SortList(_)
SortList(list) ==
    IF list = <<>> THEN <<>> ELSE Insert(Head(list), SortList(Tail(list)))

\* Lines 108-110: for i, species in enumerate(list): d[species] = i
RECURSIVE EnumDictFrom(_, _, _)
EnumDictFrom(list, i, d) ==
    IF list = <<>> THEN d
    ELSE EnumDictFrom(Tail(list), i + 1,
            [k \in DOMAIN d \cup {Head(list)} |->
                IF k = Head(list) THEN i ELSE d[k]])

\* Mutant: the index is built after the sort, in alphabetical order.
BuildIndexSorted(list) == EnumDictFrom(SortList(list), 0, EmptyDict)

BuildIndex(list) == EnumDictFrom(list, 0, EmptyDict)

\* Mutant: the inverse is built by enumerating the sorted species list.
InvertDictSorted(d) ==
    LET keys == CHOOSE q \in [1..Cardinality(DOMAIN d) -> DOMAIN d] :
                    Range(q) = DOMAIN d
    IN [i \in Range(d) |->
          IF i + 1 \in 1..Len(keys) THEN SortList(keys)[i + 1] ELSE keys[1]]

\* Lines 111-112: dict(zip(d.values(), d.keys()))
InvertDict(d) == [i \in Range(d) |-> CHOOSE k \in DOMAIN d : d[k] = i]

(***************************************************************************)
(* The files the solver run leaves behind.                                 *)
(***************************************************************************)
\* model.c for a given enumeration order: one identifier per line.
RECURSIVE EnumBody(_)
EnumBody(order) ==
    IF order = <<>> THEN <<"\n">>
    ELSE <<"\n", " ">> \o Head(order)
         \o (IF Len(order) > 1 THEN <<",">> ELSE <<>>) \o EnumBody(Tail(order))

ModelText(order) ==
    <<"i", "n", "t", " ", "n", ";", "\n">> \o Marker \o EnumBody(order)
    \o <<"}", ";", "\n">>

\* Every order in which model.c can enumerate the species.
EnumOrders ==
    {o \in [1..Cardinality(Names) -> Names] :
        \A i, j \in DOMAIN o : i # j => o[i] # o[j]}

\* A file: whether it exists, its content as the program reads it, and what
\* the solver run put in it (an enumeration order, or a segment's times).
Absent == [exists |-> FALSE, content |-> <<>>, wrote |-> <<>>]
File(c, w) == [exists |-> TRUE, content |-> c, wrote |-> w]

\* What the solver wrote for the species at position k of its enumeration,
\* and for the temperature, in row r of segment seg.
ConcOf(seg, r, k) == 100 * seg + 10 * r + k
TempOf(seg, r) == 500 + 10 * seg + r

\* One data line of a segment file, split at tabs and field 0 at spaces:
\* "<label> <time>", one field per species, then the two fields the reader
\* takes as [-2] and [-1].
DataLine(seg, r, time, n) ==
    <<<<0, time>>>> \o [k \in 1..n |-> <<ConcOf(seg, r, k)>>]
    \o <<<<TempOf(seg, r)>>, <<>>>>

TextLine == <<<<0>>>>

\* A segment file: a header line, the data lines, six footer lines.
SegContent(seg, times, n) ==
    <<TextLine>> \o [r \in 1..Len(times) |-> DataLine(seg, r, times[r], n)]
    \o [i \in 1..(FooterLines - 1) |-> TextLine]

\* The relative times of a segment: non-decreasing, at least one row.
TimeSeqs ==
    {s \in UNION {[1..n -> 0..MaxTime] : n \in 1..MaxRows} :
        \A i, j \in DOMAIN s : i <= j => s[i] <= s[j]}

SegChoices(seg) ==
    {Absent} \cup {File(SegContent(seg, ts, Cardinality(Names)), ts) : ts \in TimeSeqs}

ModelChoices == {Absent} \cup {File(ModelText(o), o) : o \in EnumOrders}

ParamsContent == <<3600, 1, 298, 5, 773, 0, 0, 1, 60>>

(***************************************************************************)
(* read_results_files (lines 143-182).                                     *)
(***************************************************************************)
\* float(token sequence of a numeric field)
Float(field) == field[1]

\* line.split('\t')[0].split(' ')[1]
TimeOfLine(line) == line[1][2]

\* Mutant: the temperature is taken from the last field, [-1].
TempOfLineLast(line) ==
    LET f == line[Len(line)] IN IF f = <<>> THEN 0 ELSE Float(f)

\* line.split('\t')[-2]
TempOfLine(line) == Float(line[Len(line) - 1])

\* line.split('\t')[1:-2]
ConcsOfLine(line) == SubSeq(line, 2, Len(line) - 2)

\* num_lines = sum(1 for line in result) - 7
NumLines(content) == Len(content) - FooterLines

\* Rows i-1 for 1 <= i < num_lines + 1, line i being content[i + 1].
read_results_files(content, list) ==
    LET num_lines == NumLines(content)
    IN [t |-> [i \in 1..num_lines |-> TimeOfLine(content[i + 1])],
        T |-> [i \in 1..num_lines |-> TempOfLine(content[i + 1])],
        y |-> [i \in 1..num_lines |->
                 LET concs == ConcsOfLine(content[i + 1])
                 IN [j \in 1..Len(list) |->
                       IF j <= Len(concs) THEN Float(concs[j]) ELSE 0]]]

(***************************************************************************)
(* load_results (lines 13-140), one action per block of the function.      *)
(***************************************************************************)
NoRet == [returned |-> FALSE]

NoCall == [fn |-> "none"]

Notice2 == "There is not a second DDASAC results file (isothermal hold)"
Notice3 == "There is not a third DDASAC results file (cool down period)"

SegName(k) == CASE k = 1 -> "ddasac_results_1.out"
                [] k = 2 -> "ddasac_results_2.out"
                [] OTHER -> "ddasac_results_3.out"

\* raise: the call ends with the exception, nothing is returned.
Raise(exc) ==
    /\ pc' = "raised"
    /\ outcome' = exc

\* Mutant: the existence check of results_dir is missing.
CheckDirMissing ==
    /\ pc = "start"
    /\ pc' = "params"
    /\ UNCHANGED <<fsVars, opened, notices, outcome, prog_params, specieslist,
                   speciesindices, indices_to_species, t, y, T, ret, MW, last>>

\* Lines 66-69.
CheckDir ==
    /\ pc = "start"
    /\ IF ~dirExists
       THEN Raise("ValueError")
       ELSE pc' = "params" /\ outcome' = outcome
    /\ UNCHANGED <<fsVars, opened, notices, prog_params, specieslist,
                   speciesindices, indices_to_species, t, y, T, ret, MW, last>>

\* Lines 70-81.
ReadParams ==
    /\ pc = "params"
    /\ IF ~paramsFile.exists
       THEN /\ Raise("IOError")
            /\ UNCHANGED <<opened, prog_params>>
       ELSE /\ opened' = Append(opened, "prog_params.pkl")
            /\ prog_params' = paramsFile.content
            /\ pc' = "check1"
            /\ outcome' = outcome
    /\ UNCHANGED <<fsVars, notices, specieslist, speciesindices,
                   indices_to_species, t, y, T, ret, MW, last>>

\* Mutant: the check for the first segment file is missing.
CheckSeg1Missing ==
    /\ pc = "check1"
    /\ pc' = "model"
    /\ UNCHANGED <<fsVars, opened, notices, outcome, prog_params, specieslist,
                   speciesindices, indices_to_species, t, y, T, ret, MW, last>>

\* Lines 83-84.
CheckSeg1 ==
    /\ pc = "check1"
    /\ IF ~segFiles[1].exists
       THEN Raise("IOError")
       ELSE pc' = "model" /\ outcome' = outcome
    /\ UNCHANGED <<fsVars, opened, notices, prog_params, specieslist,
                   speciesindices, indices_to_species, t, y, T, ret, MW, last>>

\* Lines 86-114.
ReadModel ==
    /\ pc = "model"
    /\ IF ~modelFile.exists
       THEN /\ Raise("IOError")
            /\ UNCHANGED <<opened, specieslist, speciesindices,
                           indices_to_species>>
       ELSE LET list == ParseSpecies(modelFile.content)
                index == BuildIndex(list)
            IN /\ opened' = Append(opened, "model.c")
               /\ speciesindices' = index
               /\ indices_to_species' = InvertDict(index)
               /\ specieslist' = SortList(list)
               /\ pc' = "seg1"
               /\ outcome' = outcome
    /\ UNCHANGED <<fsVars, notices, prog_params, t, y, T, ret, MW, last>>

\* Lines 116-118.
ReadSeg1 ==
    /\ pc = "seg1"
    /\ IF ~segFiles[1].exists
       THEN /\ Raise("IOError")
            /\ UNCHANGED <<opened, t, y, T>>
       ELSE LET r == read_results_files(segFiles[1].content, specieslist)
            IN /\ opened' = Append(opened, SegName(1))
               /\ t' = r.t
               /\ y' = r.y
               /\ T' = r.T
               /\ pc' = "seg2"
               /\ outcome' = outcome
    /\ UNCHANGED <<fsVars, notices, prog_params, specieslist, speciesindices,
                   indices_to_species, ret, MW, last>>

\* Mutant: the later segment's times are appended without the offset.
OffsetTimesNone(tt, t2) == [i \in 1..(Len(t2) - 1) |-> t2[i + 1]]

\* Mutant: the first time of the appended segment is kept, t[-1] + t2.
OffsetTimesKeepFirst(tt, t2) == [i \in 1..Len(t2) |-> tt[Len(tt)] + t2[i]]

\* t[-1] + t2[1:]
OffsetTimes(tt, t2) == [i \in 1..(Len(t2) - 1) |-> tt[Len(tt)] + t2[i + 1]]

\* y2[1:] of an array
DropFirst(a) == [i \in 1..(Len(a) - 1) |-> a[i + 1]]

\* Mutant: the IOError of a missing optional segment is not caught.
AppendSegmentUncaught(k, notice, next) ==
    IF ~segFiles[k].exists
    THEN /\ Raise("IOError")
         /\ UNCHANGED <<opened, notices, t, y, T>>
    ELSE LET r == read_results_files(segFiles[k].content, specieslist)
         IN /\ opened' = Append(opened, SegName(k))
            /\ y' = y \o DropFirst(r.y)
            /\ t' = t \o OffsetTimes(t, r.t)
            /\ T' = T \o DropFirst(r.T)
            /\ pc' = next
            /\ outcome' = outcome
            /\ UNCHANGED notices

\* The try/except blocks of lines 120-127 (k = 2) and 129-136 (k = 3).
AppendSegment(k, notice, next) ==
    IF ~segFiles[k].exists
    THEN /\ notices' = Append(notices, notice)
         /\ pc' = next
         /\ outcome' = outcome
         /\ UNCHANGED <<opened, t, y, T>>
    ELSE LET r == read_results_files(segFiles[k].content, specieslist)
         IN IF Len(t) = 0 /\ Len(r.t) > 1
            THEN /\ Raise("IndexError")
                 /\ opened' = Append(opened, SegName(k))
                 /\ UNCHANGED <<notices, t, y, T>>
            ELSE /\ opened' = Append(opened, SegName(k))
                 /\ y' = y \o DropFirst(r.y)
                 /\ t' = t \o OffsetTimes(t, r.t)
                 /\ T' = T \o DropFirst(r.T)
                 /\ pc' = next
                 /\ outcome' = outcome
                 /\ UNCHANGED notices

AppendSeg2 ==
    /\ pc = "seg2"
    /\ AppendSegment(2, Notice2, "seg3")
    /\ UNCHANGED <<fsVars, prog_params, specieslist, speciesindices,
                   indices_to_species, ret, MW, last>>

AppendSeg3 ==
    /\ pc = "seg3"
    /\ AppendSegment(3, Notice3, "return")
    /\ UNCHANGED <<fsVars, prog_params, specieslist, speciesindices,
                   indices_to_species, ret, MW, last>>

\* Lines 138-140.
Return ==
    /\ pc = "return"
    /\ ret' = [returned |-> TRUE, prog_params |-> prog_params,
               y |-> y, t |-> t, T |-> T, specieslist |-> specieslist,
               speciesindices |-> speciesindices,
               indices_to_species |-> indices_to_species]
    /\ pc' = "done"
    /\ outcome' = "ok"
    /\ UNCHANGED <<fsVars, opened, notices, prog_params, specieslist,
                   speciesindices, indices_to_species, t, y, T, MW, last>>

\* Before the call: nothing opened, printed, bound or returned.
LoaderIdle(start) ==
    /\ pc = start
    /\ opened = <<>>
    /\ notices = <<>>
    /\ outcome = "none"
    /\ prog_params = <<>>
    /\ specieslist = <<>>
    /\ speciesindices = EmptyDict
    /\ indices_to_species = EmptyDict
    /\ t = <<>>
    /\ y = <<>>
    /\ T = <<>>
    /\ ret = NoRet

\* The directory a call is given: without results_dir none of its files exist.
Init ==
    /\ dirExists \in BOOLEAN
    /\ paramsFile \in {Absent, File(ParamsContent, <<>>)}
    /\ modelFile \in ModelChoices
    /\ \E f1 \in SegChoices(1), f2 \in SegChoices(2), f3 \in SegChoices(3) :
          segFiles = <<f1, f2, f3>>
    /\ ~dirExists => /\ paramsFile = Absent
                     /\ \A k \in 1..3 : segFiles[k] = Absent
    /\ LoaderIdle("start")
    /\ MW = EmptyDict
    /\ last = NoCall

Next ==
    \/ CheckDir
    \/ ReadParams
    \/ CheckSeg1
    \/ ReadModel
    \/ ReadSeg1
    \/ AppendSeg2
    \/ AppendSeg3
    \/ Return

Spec == Init /\ [][Next]_vars

(***************************************************************************)
(* The species-property table MW (line 10) and the arguments of the        *)
(* aggregation functions.  An entry keeps MW[species][1..4]: phase tag,    *)
(* family tag, (C, H, O) and the seven functional-group contributions.     *)
(***************************************************************************)
Zero7 == <<0, 0, 0, 0, 0, 0, 0>>

Entry(phase, family, elem, fun) ==
    [phase |-> phase, family |-> family, elem |-> elem, fun |-> fun]

PureCarbonSolid == Entry("s", "", <<1, 0, 0>>, <<0, 0, 1, 0, 0, 0, 0>>)
PureOxygenGas   == Entry("g", "", <<0, 0, 1>>, Zero7)

\* Entries that differ in what the elemental and functional-group sums see.
ElemCatalog ==
    { PureCarbonSolid,
      PureOxygenGas,
      Entry("t", "p", <<6, 6, 1>>, <<0, 1, 0, 5, 0, 0, 0>>),
      Entry("lt", "", <<1, 4, 1>>, <<0, 0, 0, 0, 1, 0, 0>>),
      Entry("H2O", "", <<0, 2, 1>>, Zero7),
      Entry("", "", <<1, 2, 0>>, <<0, 0, 0, 0, 0, 0, 1>>) }

\* Entries of every phase tag and family the lumping tells apart.
Catalog ==
    ElemCatalog \cup
    { Entry("t", "s", <<8, 10, 3>>, <<0, 3, 0, 2, 0, 2, 1>>),
      Entry("CO", "", <<1, 0, 1>>, <<1, 0, 0, 0, 0, 0, 0>>),
      Entry("CO2", "", <<1, 0, 2>>, <<1, 0, 0, 0, 0, 0, 0>>),
      Entry("char", "", <<1, 0, 0>>, <<0, 0, 1, 0, 0, 0, 0>>) }

\* The species of the concentration matrix, and their columns.
AggSpecies == {"S1", "S2"}
AggIndex == [s \in AggSpecies |-> IF s = "S1" THEN 1 ELSE 0]

\* The tables over some of the species with entries from a catalog.
Tables(catalog) == UNION {[D -> catalog] : D \in SUBSET AggSpecies}

\* Concentration matrices: NumTimes rows, one column per species.
ConcRows == [1..Cardinality(AggSpecies) -> 0..MaxConc]
ConcMatrices == [1..NumTimes -> ConcRows]

\* Mass-fraction matrices, in units of 1/Unit: every row sums to Unit.
MassRows == {r \in [1..Cardinality(AggSpecies) -> 0..Unit] : r[1] + r[2] = Unit}
MassMatrices == [1..NumTimes -> MassRows]

TimeArray == [i \in 1..NumTimes |-> 10 * (i - 1)]

\* t_choice: 'end' or an index of t.
TChoices ==
    {[end |-> TRUE, index |-> 0]}
    \cup {[end |-> FALSE, index |-> i] : i \in 0..(NumTimes - 1)}

\* y[row, speciesindices[species]]
At(yy, row, idx, species) == yy[row + 1][idx[species] + 1]

RECURSIVE SumSeq(_)
SumSeq(v) == IF v = <<>> THEN 0 ELSE Head(v) + SumSeq(Tail(v))

\* numpy's float division: x/0 is nan for x = 0 and inf otherwise, with a
\* warning and no exception.  A quotient is kept as numerator and denominator.
Divide(a, b) ==
    IF b = 0 THEN [num |-> IF a = 0 THEN 0 ELSE 1, den |-> 0]
    ELSE [num |-> a, den |-> b]

IsNaN(q) == q.num = 0 /\ q.den = 0

\* v / v.sum()
Normalize(v) == [i \in DOMAIN v |-> Divide(v[i], SumSeq(v))]

\* The loop "for species in MW: if keep[species]: acc += weight * vector",
\* keep, weight and vector given per species.
RECURSIVE Accumulate(_, _, _, _, _)
Accumulate(todo, acc, keep, weight, vector) ==
    IF todo = {} THEN acc
    ELSE LET s == CHOOSE x \in todo : TRUE
         IN Accumulate(todo \ {s},
                IF keep[s]
                THEN [i \in DOMAIN acc |-> acc[i] + weight[s] * vector[s][i]]
                ELSE acc,
                keep, weight, vector)

(***************************************************************************)
(* tar_elem_analysis (lines 185-265).                                      *)
(***************************************************************************)
\* Mutant: water is left out of the tar fraction.
TarTagsNoWater == {"t", "lt"}

\* Line 250.
TarTags == {"t", "lt", "H2O"}

\* Mutant: the weights of carbon and oxygen are exchanged.
AtomicWeightsSwapped == <<WtO, WtH, WtC>>

\* Lines 259-260: 12.011, 1.0079, 15.999 in units of 1/10000.
AtomicWeights == <<WtC, WtH, WtO>>

Scale(v, w) == [i \in DOMAIN v |-> v[i] * w[i]]

\* Lines 241-246.
TIndex(tt, tc) == IF tc.end THEN Len(tt) - 1 ELSE tc.index

\* Mutant: a zero sum is rejected instead of being divided by.
tar_elem_analysis_guarded(idx, yy, tt, tc) ==
    LET keep0   == [s \in DOMAIN MW |-> At(yy, 0, idx, s) # 0]
        w0      == [s \in DOMAIN MW |-> At(yy, 0, idx, s)]
        elem    == [s \in DOMAIN MW |-> MW[s].elem]
        ea0     == Accumulate(DOMAIN MW, <<0, 0, 0>>, keep0, w0, elem)
        t_index == TIndex(tt, tc)
        keepT   == [s \in DOMAIN MW |-> MW[s].phase \in TarTags]
        wT      == [s \in DOMAIN MW |-> At(yy, t_index, idx, s)]
        ea      == Accumulate(DOMAIN MW, <<0, 0, 0>>, keepT, wT, elem)
    IN [outcome |-> IF SumSeq(ea) = 0 \/ SumSeq(ea0) = 0
                    THEN "ZeroDivisionError" ELSE "ok",
        ea0 |-> ea0, ea |-> ea,
        ea0_molpercent |-> Normalize(ea0),
        ea_molpercent |-> Normalize(ea),
        ea0_wtpercent |-> Normalize(Scale(ea0, AtomicWeights)),
        ea_wtpercent |-> Normalize(Scale(ea, AtomicWeights)),
        t_index |-> t_index]

tar_elem_analysis(idx, yy, tt, tc) ==
    LET keep0   == [s \in DOMAIN MW |-> At(yy, 0, idx, s) # 0]
        w0      == [s \in DOMAIN MW |-> At(yy, 0, idx, s)]
        elem    == [s \in DOMAIN MW |-> MW[s].elem]
        ea0     == Accumulate(DOMAIN MW, <<0, 0, 0>>, keep0, w0, elem)
        t_index == TIndex(tt, tc)
        keepT   == [s \in DOMAIN MW |-> MW[s].phase \in TarTags]
        wT      == [s \in DOMAIN MW |-> At(yy, t_index, idx, s)]
        ea      == Accumulate(DOMAIN MW, <<0, 0, 0>>, keepT, wT, elem)
    IN [outcome |-> "ok",
        ea0 |-> ea0, ea |-> ea,
        ea0_molpercent |-> Normalize(ea0),
        ea_molpercent |-> Normalize(ea),
        ea0_wtpercent |-> Normalize(Scale(ea0, AtomicWeights)),
        ea_wtpercent |-> Normalize(Scale(ea, AtomicWeights)),
        t_index |-> t_index]

TarElemAnalysis ==
    /\ pc = "loaded"
    /\ \E yy \in ConcMatrices, tc \in TChoices :
          last' = [fn |-> "tar_elem_analysis", idx |-> AggIndex, y |-> yy,
                   t |-> TimeArray, t_choice |-> tc,
                   result |-> tar_elem_analysis(AggIndex, yy, TimeArray, tc)]
    /\ pc' = "called"
    /\ UNCHANGED <<fsVars, opened, notices, outcome, prog_params, specieslist,
                   speciesindices, indices_to_species, t, y, T, ret, MW>>

(***************************************************************************)
(* C_fun_gen (lines 268-324).                                              *)
(***************************************************************************)
\* The values of `fractions` the callers pass: the sentinel, or phase tags.
Initial == {"initial"}
FractionChoices == {Initial, {"t", "lt", "H2O"}, {"t"}, {"g", "CO", "CO2"}}

\* Mutant: 'initial' does not reset the time index to 0.
C_fun_gen_no_reset(fractions, idx, yy, time) ==
    LET keep  == [s \in DOMAIN MW |->
                    IF fractions = Initial
                    THEN At(yy, time, idx, s) # 0
                    ELSE MW[s].phase \in fractions]
        w     == [s \in DOMAIN MW |-> At(yy, time, idx, s)]
        fun   == [s \in DOMAIN MW |-> MW[s].fun]
        C_fun == Accumulate(DOMAIN MW, Zero7, keep, w, fun)
    IN [outcome |-> "ok", C_fun |-> C_fun, returned |-> Normalize(C_fun)]

\* C_fun is the sum before the division of line 322, result the value returned.
C_fun_gen(fractions, idx, yy, time) ==
    LET time0 == IF fractions = Initial THEN 0 ELSE time
        keep  == [s \in DOMAIN MW |->
                    IF fractions = Initial
                    THEN At(yy, 0, idx, s) # 0
                    ELSE MW[s].phase \in fractions]
        w     == [s \in DOMAIN MW |-> At(yy, time0, idx, s)]
        fun   == [s \in DOMAIN MW |-> MW[s].fun]
        C_fun == Accumulate(DOMAIN MW, Zero7, keep, w, fun)
    IN [outcome |-> "ok", C_fun |-> C_fun, returned |-> Normalize(C_fun)]

CFunGen ==
    /\ pc = "loaded"
    /\ \E yy \in ConcMatrices, f \in FractionChoices, time \in 0..(NumTimes - 1) :
          last' = [fn |-> "C_fun_gen", idx |-> AggIndex, y |-> yy,
                   fractions |-> f, time |-> time,
                   result |-> C_fun_gen(f, AggIndex, yy, time)]
    /\ pc' = "called"
    /\ UNCHANGED <<fsVars, opened, notices, outcome, prog_params, specieslist,
                   speciesindices, indices_to_species, t, y, T, ret, MW>>

(***************************************************************************)
(* lump_species (lines 327-388).                                           *)
(***************************************************************************)
\* Mutant: the branch for char is missing, so char falls to the else branch.
PhaseColumnNoChar(phase) ==
    CASE phase = "s"   -> 0
      [] phase = "t"   -> 1
      [] phase = "lt"  -> 2
      [] phase = "g"   -> 3
      [] phase = "CO"  -> 4
      [] phase = "CO2" -> 5
      [] phase = "H2O" -> 6
      [] OTHER         -> -1

\* The if/elif chain of lines 359-380: the lumped column of a phase tag, -1
\* for the else branch.
PhaseColumn(phase) ==
    CASE phase = "s"    -> 0
      [] phase = "t"    -> 1
      [] phase = "lt"   -> 2
      [] phase = "g"    -> 3
      [] phase = "CO"   -> 4
      [] phase = "CO2"  -> 5
      [] phase = "H2O"  -> 6
      [] phase = "char" -> 7
      [] OTHER          -> -1

\* Lines 363-366: the family column of a heavy-tar species, -1 for neither.
FamilyColumn(entry) ==
    IF entry.phase # "t" THEN -1
    ELSE IF entry.family = "p" THEN 0
    ELSE IF entry.family = "s" THEN 1
    ELSE -1

\* Row r of "for species in MW: out[:, Col(species)] += m[:, index[species]]".
RECURSIVE LumpRow(_, _, _, _, _)
LumpRow(todo, acc, col, idx, row) ==
    IF todo = {} THEN acc
    ELSE LET s == CHOOSE x \in todo : TRUE
         IN LumpRow(todo \ {s},
                [c \in DOMAIN acc |->
                    IF c = col[s] + 1 THEN acc[c] + row[idx[s] + 1] ELSE acc[c]],
                col, idx, row)

lump_species(idx, m) ==
    LET pcol   == [s \in DOMAIN MW |-> PhaseColumn(MW[s].phase)]
        fcol   == [s \in DOMAIN MW |-> FamilyColumn(MW[s])]
        lumped == [r \in DOMAIN m |->
                     LumpRow(DOMAIN MW, <<0, 0, 0, 0, 0, 0, 0, 0>>, pcol, idx, m[r])]
    IN [outcome |-> "ok",
        lumped |-> lumped,
        phenolic_families |->
            [r \in DOMAIN m |-> LumpRow(DOMAIN MW, <<0, 0>>, fcol, idx, m[r])],
        morelumped |->
            [r \in DOMAIN m |->
                <<lumped[r][1] + lumped[r][8],
                  lumped[r][2] + lumped[r][3] + lumped[r][7],
                  lumped[r][4] + lumped[r][5] + lumped[r][6]>>],
        printed |-> {s \in DOMAIN MW : pcol[s] = -1}]

LumpSpecies ==
    /\ pc = "loaded"
    /\ \E m \in MassMatrices :
          last' = [fn |-> "lump_species", idx |-> AggIndex, m |-> m,
                   result |-> lump_species(AggIndex, m)]
    /\ pc' = "called"
    /\ UNCHANGED <<fsVars, opened, notices, outcome, prog_params, specieslist,
                   speciesindices, indices_to_species, t, y, T, ret, MW>>

\* A session whose results are loaded and whose table is imported; a
\* behaviour is one call of one aggregation function (they keep no state).
InitSession(catalog) ==
    /\ dirExists = TRUE
    /\ paramsFile = Absent
    /\ modelFile = Absent
    /\ segFiles = <<Absent, Absent, Absent>>
    /\ LoaderIdle("loaded")
    /\ MW \in Tables(catalog)
    /\ last = NoCall

InitAgg == InitSession(ElemCatalog)

NextAgg ==
    \/ TarElemAnalysis
    \/ CFunGen

SpecAgg == InitAgg /\ [][NextAgg]_vars

InitLump == InitSession(Catalog)

NextLump == LumpSpecies

SpecLump == InitLump /\ [][NextLump]_vars

(***************************************************************************)
(* What the solver run wrote, for stating the loader's properties.         *)
(***************************************************************************)
NumSpecies == Cardinality(Names)

\* The rows of segment k that the combined series keeps: all of segment 1,
\* all but the first of a later segment.
Skipped(k) == IF k = 1 THEN 0 ELSE 1

KeptY(k) ==
    IF ~segFiles[k].exists THEN <<>>
    ELSE [i \in 1..(Len(segFiles[k].wrote) - Skipped(k)) |->
            [j \in 1..NumSpecies |-> ConcOf(k, i + Skipped(k), j)]]

KeptT(k) ==
    IF ~segFiles[k].exists THEN <<>>
    ELSE [i \in 1..(Len(segFiles[k].wrote) - Skipped(k)) |->
            TempOf(k, i + Skipped(k))]

ExpectedY == KeptY(1) \o KeptY(2) \o KeptY(3)
ExpectedT == KeptT(1) \o KeptT(2) \o KeptT(3)

MandatoryPresent ==
    /\ dirExists
    /\ paramsFile.exists
    /\ modelFile.exists
    /\ segFiles[1].exists

NonDecreasing(s) == \A i, j \in DOMAIN s : i <= j => s[i] <= s[j]

Sorted(list) == \A i, j \in DOMAIN list : i < j => StrLess(list[i], list[j])

\* The position (from 1) at which model.c enumerates species s.
Pos(s) == CHOOSE k \in DOMAIN modelFile.wrote : modelFile.wrote[k] = s

PastModel == pc \in {"seg1", "seg2", "seg3", "return", "done"}

(***************************************************************************)
(* Properties of the loader.                                               *)
(***************************************************************************)
\* C1: when results_dir does not exist, load_results raises ValueError as its
\* first step: no file is opened, no notice printed, nothing returned.
C1_MissingDirFailsFirst ==
    (~dirExists /\ pc # "start") =>
        /\ pc = "raised"
        /\ outcome = "ValueError"
        /\ opened = <<>>
        /\ notices = <<>>
        /\ ret = NoRet

C1_Witness == ~dirExists /\ modelFile.exists /\ outcome = "ValueError"

\* C2: when results_dir exists and ddasac_results_1.out does not, load_results
\* raises IOError before model.c or any segment is opened, and returns
\* nothing, whatever segments 2 and 3 are.
C2_MissingFirstSegmentFails ==
    (dirExists /\ ~segFiles[1].exists /\ pc \notin {"start", "params", "check1"}) =>
        /\ pc = "raised"
        /\ outcome = "IOError"
        /\ \A i \in DOMAIN opened : opened[i] = "prog_params.pkl"
        /\ specieslist = <<>> /\ speciesindices = EmptyDict
        /\ t = <<>> /\ y = <<>> /\ T = <<>>
        /\ notices = <<>>
        /\ ret = NoRet

C2_Witness ==
    /\ dirExists /\ paramsFile.exists /\ modelFile.exists
    /\ ~segFiles[1].exists /\ segFiles[2].exists /\ segFiles[3].exists
    /\ outcome = "IOError"

\* C3: a missing segment 2 or 3 is never an error: with the mandatory files
\* present the call never raises; it prints one notice per missing optional
\* segment, and returns the rows of the present segments in order (every row
\* of segment 1, every row but the first of a later one), so segment 1 alone
\* is returned unchanged.
C3_OptionalSegments ==
    /\ pc = "raised" => ~MandatoryPresent
    /\ pc = "done" =>
        /\ outcome = "ok" /\ ret.returned
        /\ notices = (IF segFiles[2].exists THEN <<>> ELSE <<Notice2>>)
                     \o (IF segFiles[3].exists THEN <<>> ELSE <<Notice3>>)
        /\ ret.y = ExpectedY
        /\ ret.T = ExpectedT
        /\ Len(ret.t) = Len(ExpectedY)
        /\ (~segFiles[2].exists /\ ~segFiles[3].exists) =>
               ret.t = segFiles[1].wrote

C3_Witness ==
    /\ pc = "done" /\ ~segFiles[2].exists
    /\ segFiles[3].exists /\ Len(segFiles[3].wrote) >= 2
    /\ notices = <<Notice2>>

\* C4: the combined times are non-decreasing; after segment 2 is appended
\* they are segment 1's times followed by segment 2's times but the first,
\* each offset by segment 1's last time (length len1 + len2 - 1); a third
\* segment is appended likewise, offset by the last time of the series so far.
C4_CombinedTimes ==
    LET t1 == segFiles[1].wrote
        t2 == segFiles[2].wrote
        t3 == segFiles[3].wrote
        n12 == Len(t1) + (IF segFiles[2].exists THEN Len(t2) - 1 ELSE 0)
    IN /\ NonDecreasing(t)
       /\ (pc \in {"seg3", "return", "done"} /\ segFiles[2].exists) =>
            /\ Len(t) >= Len(t1) + Len(t2) - 1
            /\ pc = "seg3" => Len(t) = Len(t1) + Len(t2) - 1
            /\ \A i \in 1..Len(t1) : t[i] = t1[i]
            /\ \A i \in 1..(Len(t2) - 1) : t[Len(t1) + i] = t1[Len(t1)] + t2[i + 1]
       /\ (pc \in {"return", "done"} /\ segFiles[3].exists) =>
            /\ Len(t) = n12 + Len(t3) - 1
            /\ \A i \in 1..(Len(t3) - 1) : t[n12 + i] = t[n12] + t3[i + 1]
       /\ pc = "done" => ret.t = t

C4_Witness ==
    /\ pc = "done"
    /\ segFiles[2].exists /\ Len(segFiles[2].wrote) >= 2
    /\ segFiles[3].exists /\ Len(segFiles[3].wrote) >= 2
    /\ segFiles[1].wrote[Len(segFiles[1].wrote)] > 0
    /\ segFiles[2].wrote[2] > 0
    /\ segFiles[3].wrote[2] > 0

\* C5: the two index dictionaries are inverse bijections between the species
\* of the returned list and the column indices 0..n-1.
C5_IndexBijection ==
    PastModel =>
        /\ \A i \in 1..Len(specieslist) :
              LET s == specieslist[i]
              IN /\ s \in DOMAIN speciesindices
                 /\ speciesindices[s] \in DOMAIN indices_to_species
                 /\ indices_to_species[speciesindices[s]] = s
        /\ \A i \in 0..(Len(specieslist) - 1) :
              /\ i \in DOMAIN indices_to_species
              /\ indices_to_species[i] \in DOMAIN speciesindices
              /\ speciesindices[indices_to_species[i]] = i
        /\ pc = "done" =>
              /\ ret.specieslist = specieslist
              /\ ret.speciesindices = speciesindices
              /\ ret.indices_to_species = indices_to_species

C5_Witness ==
    /\ pc = "done"
    /\ ~Sorted(modelFile.wrote)
    /\ Len(ret.specieslist) = NumSpecies

\* C6 as stated: column indices follow the alphabetical order of the names.
C6_IndexAlphabetical ==
    pc = "done" =>
        \A a, b \in DOMAIN ret.speciesindices :
            StrLess(a, b) => ret.speciesindices[a] < ret.speciesindices[b]

\* C6 amended: column indices follow the order in which model.c enumerates
\* the species (only the returned species list is sorted alphabetically), and
\* column speciesindices[s] holds what the solver wrote for species s.
C6_IndexFollowsEnumeration ==
    PastModel =>
        /\ DOMAIN speciesindices = Range(modelFile.wrote)
        /\ \A k \in DOMAIN modelFile.wrote :
              speciesindices[modelFile.wrote[k]] = k - 1
        /\ Sorted(specieslist)
        /\ Range(specieslist) = Range(modelFile.wrote)
        /\ \A r \in 1..Len(y) : \A s \in DOMAIN speciesindices :
              y[r][speciesindices[s] + 1] = ExpectedY[r][Pos(s)]

C6_Witness ==
    /\ pc = "done"
    /\ ~Sorted(modelFile.wrote)
    /\ Len(ret.y) >= 2

\* The content with the last tab field of every line replaced by f.
WithLastField(content, f) ==
    [i \in DOMAIN content |->
        [j \in DOMAIN content[i] |->
            IF j = Len(content[i]) THEN f ELSE content[i][j]]]

\* The content with the header line and the six footer lines replaced by line.
WithTextLines(content, line) ==
    [i \in DOMAIN content |->
        IF i = 1 \/ i > Len(content) - (FooterLines - 1) THEN line ELSE content[i]]

\* t, y, T as read_results_files returns them.
Parsed(content) == read_results_files(content, specieslist)

\* C11 as stated: the temperature of a data line is its last tab field, the
\* field before it being unused.
C11_TemperatureFromLastField ==
    pc = "seg2" =>
        LET c == WithLastField(segFiles[1].content, <<999>>)
        IN \A i \in 1..Len(Parsed(c).T) : Parsed(c).T[i] = 999

\* C11 amended: for every data line the time is the second space-separated
\* token of tab field 0, the concentrations are tab fields 1..N-2 in the
\* solver's species order, and the temperature is tab field N-1, the one
\* before the last; the last field, N, is unused.  The header line and the
\* six footer lines are never parsed: there are (total lines - 7) rows.
C11_FieldsOfDataLine ==
    pc = "seg2" =>
        LET c == segFiles[1].content
            w == segFiles[1].wrote
        IN /\ Len(t) = Len(c) - 7 /\ Len(T) = Len(c) - 7 /\ Len(y) = Len(c) - 7
           /\ Len(t) = Len(w)
           /\ \A i \in 1..Len(t) :
                 LET line == c[i + 1]
                     N == Len(line) - 1
                 IN /\ t[i] = w[i] /\ line[1] = <<0, t[i]>>
                    /\ T[i] = TempOf(1, i) /\ line[N] = <<T[i]>>
                    /\ N - 2 = NumSpecies
                    /\ \A k \in 1..(N - 2) :
                          y[i][k] = ConcOf(1, i, k) /\ line[k + 1] = <<y[i][k]>>
           /\ Parsed(WithLastField(c, <<999>>)) = [t |-> t, y |-> y, T |-> T]
           /\ Parsed(WithTextLines(c, DataLine(1, 9, 9, NumSpecies))) =
                  [t |-> t, y |-> y, T |-> T]
           /\ \A k \in 2..3 :
                 segFiles[k].exists =>
                     LET r == Parsed(segFiles[k].content)
                     IN /\ Len(r.t) = Len(segFiles[k].content) - 7
                        /\ r.t = segFiles[k].wrote
                        /\ \A i \in 1..Len(r.T) : r.T[i] = TempOf(k, i)

C11_Witness ==
    /\ pc = "seg2"
    /\ Len(t) = MaxRows
    /\ t[Len(t)] > 0
    /\ segFiles[2].exists /\ Len(segFiles[2].wrote) >= 2

(***************************************************************************)
(* Properties of the aggregation functions.                                *)
(***************************************************************************)
RECURSIVE SetSum(_, _)
SetSum(S, f) ==
    IF S = {} THEN 0
    ELSE LET x == CHOOSE z \in S : TRUE IN f[x] + SetSum(S \ {x}, f)

Called(fn) == pc = "called" /\ last.fn = fn

\* The lumped columns in the order of the docstring (lines 345-348).
ColumnOrder == <<"s", "t", "lt", "g", "CO", "CO2", "H2O", "char">>
RecognizedPhases == Range(ColumnOrder)

\* The species of column j (from 0) of a matrix indexed by idx.
SpeciesOfColumn(idx, j) == CHOOSE s \in DOMAIN idx : idx[s] = j

\* The columns whose species is added to some lumped column.
LumpedColumns(idx) ==
    {j \in Range(idx) :
        LET s == SpeciesOfColumn(idx, j)
        IN s \in DOMAIN MW /\ MW[s].phase \in RecognizedPhases}

\* C7 as stated: the eight lumped columns sum to 1 at every row of every
\* mass-fraction matrix whose rows sum to 1.
C7_LumpedSumsToOne ==
    Called("lump_species") =>
        \A r \in DOMAIN last.m :
            SumSeq(last.m[r]) = Unit => SumSeq(last.result.lumped[r]) = Unit

\* C7 amended: the eight lumped columns sum, at every row, to the mass
\* fractions of the species that are in the table with one of the eight phase
\* tags, each added to the one column of its tag; so they sum to 1 when every
\* species is such a species, and fall short by the mass fraction of a species
\* with no recognized tag (which is printed) or absent from the table.
C7_LumpedSumsRecognized ==
    Called("lump_species") =>
        LET idx == last.idx
            res == last.result
        IN /\ res.outcome = "ok"
           /\ \A r \in DOMAIN last.m :
                 /\ SumSeq(res.lumped[r]) =
                        SetSum(LumpedColumns(idx), [j \in Range(idx) |-> last.m[r][j + 1]])
                 /\ LumpedColumns(idx) = Range(idx) =>
                        SumSeq(res.lumped[r]) = SumSeq(last.m[r])
                 /\ \A c \in 1..8 :
                        LET tagged == {s \in DOMAIN MW : MW[s].phase = ColumnOrder[c]}
                        IN res.lumped[r][c] =
                              SetSum(tagged, [s \in tagged |-> last.m[r][idx[s] + 1]])
           /\ res.printed = {s \in DOMAIN MW : MW[s].phase \notin RecognizedPhases}

C7_Witness ==
    /\ Called("lump_species")
    /\ DOMAIN MW = AggSpecies
    /\ MW["S1"].phase = "char" /\ MW["S2"].phase = ""
    /\ \E r \in DOMAIN last.m : last.m[r][1] > 0 /\ last.m[r][2] > 0

\* C8: the target-time composition is the concentration-weighted sum of the
\* (C, H, O) vectors over exactly the species tagged t, lt or H2O, at the last
\* index of t for t_choice = 'end' and at the given index otherwise; the
\* baseline is taken at index 0 whatever t_choice is.
C8_TarElemAnalysis ==
    Called("tar_elem_analysis") =>
        LET idx  == last.idx
            res  == last.result
            at   == IF last.t_choice.end THEN Len(last.t) - 1
                    ELSE last.t_choice.index
            tar  == {s \in DOMAIN MW : MW[s].phase \in {"t", "lt", "H2O"}}
            init == {s \in DOMAIN MW : last.y[1][idx[s] + 1] # 0}
        IN /\ res.t_index = at
           /\ \A k \in 1..3 :
                 /\ res.ea[k] =
                      SetSum(tar, [s \in tar |->
                                     last.y[at + 1][idx[s] + 1] * MW[s].elem[k]])
                 /\ res.ea0[k] =
                      SetSum(init, [s \in init |->
                                      last.y[1][idx[s] + 1] * MW[s].elem[k]])

C8_Witness ==
    /\ Called("tar_elem_analysis")
    /\ last.t_choice.end
    /\ DOMAIN MW = AggSpecies
    /\ MW["S1"].phase = "H2O" /\ MW["S2"].phase = "g"
    /\ \A r \in DOMAIN last.y : \A j \in DOMAIN last.y[r] : last.y[r][j] > 0
    /\ last.result.ea = <<0, 2 * last.y[Len(last.y)][2], last.y[Len(last.y)][2]>>

\* The synthetic table of C9: S1 pure carbon tagged solid, S2 pure oxygen
\* tagged gas, called with t_choice = 0 and nonzero concentrations at time 0.
SyntheticCall ==
    /\ Called("tar_elem_analysis")
    /\ DOMAIN MW = AggSpecies
    /\ MW["S1"] = PureCarbonSolid /\ MW["S2"] = PureOxygenGas
    /\ ~last.t_choice.end /\ last.t_choice.index = 0
    /\ last.y[1][last.idx["S1"] + 1] > 0
    /\ last.y[1][last.idx["S2"] + 1] > 0

RECURSIVE GCD(_, _)
GCD(a, b) == IF b = 0 THEN a ELSE GCD(b, a % b)

\* The quotient q is the fraction a/b: equal in lowest terms.
IsFraction(q, a, b) ==
    /\ q.den # 0 /\ b # 0
    /\ q.num \div GCD(q.num, q.den) = a \div GCD(a, b)
    /\ q.den \div GCD(q.num, q.den) = b \div GCD(a, b)

\* The percentages worked by hand from c mol/L of carbon and o mol/L of oxygen.
HandComputed(molpercent, wtpercent, c, o) ==
    /\ IsFraction(molpercent[1], c, c + o)
    /\ IsFraction(molpercent[2], 0, c + o)
    /\ IsFraction(molpercent[3], o, c + o)
    /\ IsFraction(wtpercent[1], WtC * c, WtC * c + WtO * o)
    /\ IsFraction(wtpercent[2], 0, WtC * c + WtO * o)
    /\ IsFraction(wtpercent[3], WtO * o, WtC * c + WtO * o)

\* C9 as stated: both the baseline and the target-time percentages are the
\* hand-computed ones.
C9_BothHandComputed ==
    SyntheticCall =>
        LET c == last.y[1][last.idx["S1"] + 1]
            o == last.y[1][last.idx["S2"] + 1]
            res == last.result
        IN /\ HandComputed(res.ea0_molpercent, res.ea0_wtpercent, c, o)
           /\ HandComputed(res.ea_molpercent, res.ea_wtpercent, c, o)

\* C9 amended: the baseline percentages are the hand-computed ones; the
\* target-time vector is zero and its percentages are NaN, since neither a
\* solid nor a gas is in the tar fraction.
C9_BaselineHandComputed ==
    SyntheticCall =>
        LET c == last.y[1][last.idx["S1"] + 1]
            o == last.y[1][last.idx["S2"] + 1]
            res == last.result
        IN /\ res.ea0 = <<c, 0, o>>
           /\ HandComputed(res.ea0_molpercent, res.ea0_wtpercent, c, o)
           /\ res.ea = <<0, 0, 0>>
           /\ \A k \in 1..3 : IsNaN(res.ea_molpercent[k]) /\ IsNaN(res.ea_wtpercent[k])

C9_Witness ==
    /\ SyntheticCall
    /\ last.y[1][last.idx["S1"] + 1] # last.y[2][last.idx["S1"] + 1]

\* C10: when no species passes the tag filter, or the filtered sum is zero,
\* tar_elem_analysis returns a zero vector with NaN percentages and
\* C_fun_gen divides its zero vector into NaN; neither raises.
C10_ZeroSumGivesNaN ==
    /\ Called("tar_elem_analysis") =>
          LET res == last.result
              none == \A s \in DOMAIN MW : MW[s].phase \notin {"t", "lt", "H2O"}
          IN /\ res.outcome = "ok"
             /\ (none \/ SumSeq(res.ea) = 0) =>
                   /\ res.ea = <<0, 0, 0>>
                   /\ \A k \in 1..3 : /\ IsNaN(res.ea_molpercent[k])
                                      /\ IsNaN(res.ea_wtpercent[k])
    /\ Called("C_fun_gen") =>
          LET res == last.result
              none == /\ last.fractions # Initial
                      /\ \A s \in DOMAIN MW : MW[s].phase \notin last.fractions
          IN /\ res.outcome = "ok"
             /\ (none \/ SumSeq(res.C_fun) = 0) =>
                   /\ res.C_fun = Zero7
                   /\ \A k \in 1..7 : IsNaN(res.returned[k])

C10_Witness ==
    /\ Called("C_fun_gen")
    /\ last.fractions = {"t"}
    /\ DOMAIN MW = AggSpecies
    /\ MW["S1"].phase = "lt" /\ MW["S2"].phase = "g"
    /\ \A r \in DOMAIN last.y : \A j \in DOMAIN last.y[r] : last.y[r][j] > 0
    /\ IsNaN(last.result.returned[1])

\* The species that stand for the lignin precursors (PLIGC, PLIGH, PLIGO of
\* the comment at line 235); the other species are products.
Precursors == {"S1"}

\* The sum of y[row] * MW[s].fun[k] over the species of a set.
FunSum(S, row, k) ==
    SetSum(S, [s \in S |-> last.y[row + 1][last.idx[s] + 1] * MW[s].fun[k]])

\* C12 as stated: with ['initial'] only precursor species contribute,
\* whatever the initial concentration of the others.
C12_InitialOnlyPrecursors ==
    (Called("C_fun_gen") /\ last.fractions = Initial) =>
        LET S == {s \in DOMAIN MW \cap Precursors : last.y[1][last.idx[s] + 1] # 0}
        IN \A k \in 1..7 : last.result.C_fun[k] = FunSum(S, 0, k)

\* C12 amended: with ['initial'] the sum is taken at time index 0 whatever
\* the time argument is, over every species of the table with a nonzero
\* initial concentration, precursor or not; with phase tags it is taken at
\* the given time index over exactly the species whose tag is in the set.
\* The seven components returned sum to 1 when the sum is not zero and are
\* NaN when it is.
C12_FunctionalGroups ==
    Called("C_fun_gen") =>
        LET res    == last.result
            init   == {s \in DOMAIN MW : last.y[1][last.idx[s] + 1] # 0}
            tagged == {s \in DOMAIN MW : MW[s].phase \in last.fractions}
            total  == SumSeq(res.C_fun)
        IN /\ \A k \in 1..7 :
                 res.C_fun[k] = IF last.fractions = Initial
                                THEN FunSum(init, 0, k)
                                ELSE FunSum(tagged, last.time, k)
           /\ total # 0 =>
                 /\ \A k \in 1..7 : res.returned[k] = [num |-> res.C_fun[k], den |-> total]
                 /\ SumSeq([k \in 1..7 |-> res.returned[k].num]) = total
           /\ total = 0 => \A k \in 1..7 : IsNaN(res.returned[k])

C12_Witness ==
    /\ Called("C_fun_gen")
    /\ last.fractions = Initial /\ last.time = 1
    /\ DOMAIN MW = AggSpecies
    /\ MW["S1"].phase = "s" /\ MW["S2"].phase = "lt"
    /\ last.y[1][last.idx["S1"] + 1] > 0
    /\ last.y[1][last.idx["S2"] + 1] > 0
    /\ last.y[2][last.idx["S2"] + 1] = 0
    /\ last.result.C_fun[5] > 0

\* The number of rows segment k contributes once its step has run.
RowsKept(k) == Len(KeptT(k))

\* The number of rows bound when the loader stands at pc.
RowsBy(p) ==
    CASE p \in {"seg2"} -> RowsKept(1)
      [] p \in {"seg3"} -> RowsKept(1) + RowsKept(2)
      [] p \in {"return", "done"} -> RowsKept(1) + RowsKept(2) + RowsKept(3)
      [] OTHER -> 0

\* C13: t, T and y always have the same number of rows: after segment 1 is
\* read and after each append step a segment has gone to all three or to
\* none, and what a successful call returns, for every combination of
\* present segments, has one common time-dimension length.
C13_SameTimeLength ==
    /\ Len(t) = Len(y) /\ Len(y) = Len(T)
    /\ pc \in {"seg2", "seg3", "return", "done"} => Len(t) = RowsBy(pc)
    /\ pc = "done" =>
        /\ outcome = "ok"
        /\ Len(ret.t) = Len(ret.y) /\ Len(ret.y) = Len(ret.T)
        /\ Len(ret.t) = RowsBy("done")

C13_Witness ==
    /\ pc = "seg3"
    /\ segFiles[2].exists /\ Len(segFiles[2].wrote) >= 2
    /\ ~segFiles[3].exists
    /\ Len(y) = Len(segFiles[1].wrote) + Len(segFiles[2].wrote) - 1
    /\ Len(y) > Len(segFiles[1].wrote)

====
